---- MODULE Spec2Model ----
(***************************************************************************)
(* Model of key_code.cpp: the raw-mode terminal controller                 *)
(* (enable_raw_mode / disable_raw_mode / read_raw) and the escape-sequence *)
(* decoding loop of main().                                                *)
(*                                                                         *)
(* Bytes are integers 0..255.  The terminal is a record of the settings    *)
(* the program touches (ECHO and ICANON of c_lflag, c_cc[VMIN] and         *)
(* c_cc[VTIME]).  The keyboard is a wire of bytes still to arrive and the  *)
(* kernel input queue inbuf of bytes that arrived and were not read yet.   *)
(***************************************************************************)
EXTENDS Integers, Sequences, FiniteSets, TLC

(* ---------------------------------------------------------------------- *)
(* Bounds of the model                                                     *)
(* ---------------------------------------------------------------------- *)

\* number of key presses in the input of one run
MaxKeys == 2

(* ---------------------------------------------------------------------- *)
(* Program constants                                                       *)
(* ---------------------------------------------------------------------- *)

\* '\x1b'
ESC == 27

\* 'q', the sentinel of the loop condition
SentinelQ == 113

\* the size handed to the third read: read_raw(buffer, false, 10)
RestReadSize == 10

\* what read() returns on failure; read_raw returns it as a std::size_t, which
\* the caller only ever compares with 1
ReadError == -1

(* ---------------------------------------------------------------------- *)
(* vkey_t and virtual_key_map                                              *)
(* ---------------------------------------------------------------------- *)

vkey_t ==
  {"none", "F1", "F2", "F3", "F4", "F5", "F6", "F7", "F8", "F9", "F10",
   "F11", "F12", "HOME", "END", "UP_ARROW", "DOWN_ARROW", "LEFT_ARROW",
   "RIGHT_ARROW", "PAGE_UP", "PAGE_DOWN", "INSERT", "DELETE", "ESC",
   "BACKSPACE", "ENTER", "TAB"}

\* '[' = 91, 'O' = 79, '~' = 126, digits '0'..'9' = 48..57, letters by ASCII
virtual_key_map ==
  { [seq |-> <<ESC>>,                  vk |-> "ESC"],
    [seq |-> <<ESC, 91, 79, 81>>,      vk |-> "F2"],
    [seq |-> <<ESC, 91, 79, 82>>,      vk |-> "F3"],
    [seq |-> <<ESC, 91, 79, 83>>,      vk |-> "F4"],
    [seq |-> <<ESC, 91, 49, 53, 126>>, vk |-> "F5"],
    [seq |-> <<ESC, 91, 49, 55, 126>>, vk |-> "F6"],
    [seq |-> <<ESC, 91, 49, 56, 126>>, vk |-> "F7"],
    [seq |-> <<ESC, 91, 49, 57, 126>>, vk |-> "F8"],
    [seq |-> <<ESC, 91, 50, 48, 126>>, vk |-> "F9"],
    [seq |-> <<ESC, 91, 72>>,          vk |-> "HOME"],
    [seq |-> <<ESC, 91, 70>>,          vk |-> "END"],
    [seq |-> <<ESC, 91, 65>>,          vk |-> "UP_ARROW"],
    [seq |-> <<ESC, 91, 66>>,          vk |-> "DOWN_ARROW"],
    [seq |-> <<ESC, 91, 67>>,          vk |-> "RIGHT_ARROW"],
    [seq |-> <<ESC, 91, 68>>,          vk |-> "LEFT_ARROW"],
    [seq |-> <<ESC, 91, 53, 126>>,     vk |-> "PAGE_UP"],
    [seq |-> <<ESC, 91, 54, 126>>,     vk |-> "PAGE_DOWN"],
    [seq |-> <<ESC, 91, 50, 126>>,     vk |-> "INSERT"],
    [seq |-> <<ESC, 91, 51, 126>>,     vk |-> "DELETE"],
    [seq |-> <<127>>,                  vk |-> "BACKSPACE"],
    [seq |-> <<10>>,                   vk |-> "ENTER"],
    [seq |-> <<9>>,                    vk |-> "TAB"] }

\* the keys of the map
MapKeys == { e.seq : e \in virtual_key_map }

\* find over a map whose function keys are numbered one too low: the entry
\* of ESC [ O Q gives F1 instead of F2
find_f1(ks) ==
  IF ks \in MapKeys
    THEN IF ks = <<ESC, 91, 79, 81>>
           THEN "F1"
           ELSE (CHOOSE e \in virtual_key_map : e.seq = ks).vk
    ELSE "none"

\* find with the single-byte keys left out of the map
find_escape_only(ks) ==
  IF ks \in MapKeys /\ Len(ks) > 1
    THEN (CHOOSE e \in virtual_key_map : e.seq = ks).vk
    ELSE "none"

\* virtual_key_map.find(key_sequence): the mapped value, "none" standing for end()
find(ks) ==
  IF ks \in MapKeys
    THEN (CHOOSE e \in virtual_key_map : e.seq = ks).vk
    ELSE "none"

(* ---------------------------------------------------------------------- *)
(* Helpers                                                                 *)
(* ---------------------------------------------------------------------- *)

Min(a, b) == IF a <= b THEN a ELSE b

\* std::string::append(const char*) on the zero-initialised char buffer[11]
\* that holds the bytes read: the bytes up to, not including, the first NUL
CStr(data) ==
  LET nul == { i \in 1..Len(data) : data[i] = 0 }
  IN  IF nul = {} THEN data
      ELSE SubSeq(data, 1, (CHOOSE i \in nul : \A j \in nul : i <= j) - 1)

\* the two kinds of output line of the dispatch
Key(v) == [type |-> "Key", vk |-> v]
Character(b) == [type |-> "Character", ch |-> b]

(* ---------------------------------------------------------------------- *)
(* Inputs of a run                                                         *)
(* ---------------------------------------------------------------------- *)

\* terminal settings the process may be started with
InitialSettings ==
  { [echo |-> TRUE,  icanon |-> TRUE,  vmin |-> 1, vtime |-> 0],
    [echo |-> FALSE, icanon |-> TRUE,  vmin |-> 0, vtime |-> 1] }

\* byte sequences one key press puts on the wire: every key of the map, plain
\* characters 'a' and 'q', NUL (Ctrl-@), and three sequences the map lacks:
\* ESC [ Z (Shift-Tab), ESC [ 1 ; 5 A (Ctrl-Up) and ESC O P (what xterm sends
\* for F1)
FirstKeys ==
  MapKeys \cup { <<97>>, <<SentinelQ>>, <<0>>, <<ESC, 91, 90>>,
                 <<ESC, 91, 49, 59, 53, 65>>, <<ESC, 79, 80>> }

\* the key presses that may follow the first one
NextKeys ==
  { <<97>>, <<SentinelQ>>, <<0>>, <<ESC>>, <<ESC, 91, 66>>,
    <<ESC, 91, 49, 59, 53, 65>> }

RECURSIVE Streams(_)
Streams(n) ==
  IF n = 0 THEN { <<>> }
  ELSE IF n = 1 THEN { <<>> } \cup FirstKeys
  ELSE Streams(n - 1) \cup
       { s \o k : s \in (Streams(n - 1) \ { <<>> }), k \in NextKeys }

(* ---------------------------------------------------------------------- *)
(* State                                                                   *)
(* ---------------------------------------------------------------------- *)

VARIABLES
  term,          \* the terminal's current settings (what tcgetattr returns)
  term0,         \* the settings the process was started with
  orig_termios,  \* global: the saved snapshot
  bset_exit,     \* global: the one-time-install guard
  atexit_hooks,  \* functions registered with atexit, in order
  wire,          \* bytes of the key presses that have not arrived yet
  inbuf,         \* kernel input queue: arrived, not yet read
  pc,            \* position of main
  exit_code,     \* what main returned, "none" while it has not
  c,             \* main's char c
  vk,            \* main's vkey_t vk
  key_sequence,  \* main's std::string key_sequence
  events,        \* output lines of the dispatch of the current event
  reads,         \* the read() calls of the current event, in order
  whole          \* the input queue at the first read, when nothing was left on the wire

vars == <<term, term0, orig_termios, bset_exit, atexit_hooks, wire, inbuf, pc,
          exit_code, c, vk, key_sequence, events, reads, whole>>

termvars == <<term, orig_termios, bset_exit, atexit_hooks>>

\* struct termios orig_termios = {}
ZeroTermios == [echo |-> FALSE, icanon |-> FALSE, vmin |-> 0, vtime |-> 0]

Init ==
  /\ term0 \in InitialSettings
  /\ term = term0
  /\ orig_termios = ZeroTermios
  /\ bset_exit = FALSE
  /\ atexit_hooks = <<>>
  /\ wire \in Streams(MaxKeys)
  /\ inbuf = <<>>
  /\ pc = "loop"
  /\ exit_code = "none"
  /\ c = 0
  /\ vk = "none"
  /\ key_sequence = <<>>
  /\ events = <<>>
  /\ reads = <<>>
  /\ whole = <<>>

(* ---------------------------------------------------------------------- *)
(* The terminal: tcsetattr, read                                           *)
(* ---------------------------------------------------------------------- *)

\* The outcomes read(STDIN_FILENO, ptr, n) can have with the terminal in
\* non-canonical mode: bytes of the queue when there are any; zero bytes when
\* the queue is empty and VMIN = 0 (the VTIME poll ran out); with VMIN > 0 the
\* call stays blocked while the queue is empty.  A hang-up makes any read
\* return 0 and any read may fail with -1.
ReadResults(n) ==
  LET k == Min(n, Len(inbuf))
  IN  (IF inbuf # <<>>
         THEN { [ret |-> k, data |-> SubSeq(inbuf, 1, k), why |-> "data"] }
         ELSE IF term.vmin = 0
           THEN { [ret |-> 0, data |-> <<>>, why |-> "timeout"] }
           ELSE {})
      \cup { [ret |-> 0, data |-> <<>>, why |-> "eof"],
             [ret |-> ReadError, data |-> <<>>, why |-> "error"] }

\* the record of one read() call kept in reads
ReadRecord(n, r) ==
  [vmin |-> term.vmin, vtime |-> term.vtime, size |-> n, ret |-> r.ret,
   why |-> r.why, data |-> r.data]

\* disable_raw_mode putting back the local flags only, not c_cc
disable_raw_mode_flags_only ==
  /\ term' = [term EXCEPT !.echo = orig_termios.echo,
                          !.icanon = orig_termios.icanon]
  /\ inbuf' = <<>>

\* tcsetattr(STDIN_FILENO, TCSAFLUSH, &orig_termios): the saved settings
\* become the terminal's and the unread input is discarded
disable_raw_mode ==
  /\ term' = orig_termios
  /\ inbuf' = <<>>

\* enable_raw_mode without the bset_exit guard: every call registers the hook
\* and saves the settings
enable_raw_mode_unguarded(wait_for_input) ==
  /\ atexit_hooks' = Append(atexit_hooks, "disable_raw_mode")
  /\ orig_termios' = term
  /\ bset_exit' = TRUE
  /\ term' = [term EXCEPT !.echo = FALSE, !.icanon = FALSE,
                          !.vmin = IF wait_for_input THEN 1 ELSE 0,
                          !.vtime = IF wait_for_input THEN 0 ELSE 1]

\* First call: register the exit hook and save the terminal's settings.
\* Every call: clear ECHO and ICANON (mode immediate_no_echo, the default
\* argument, is the only mode main uses), set VMIN/VTIME for a blocking or a
\* polling read, and install with TCSANOW, which keeps the input queue.
enable_raw_mode(wait_for_input) ==
  /\ IF ~bset_exit
       THEN /\ atexit_hooks' = Append(atexit_hooks, "disable_raw_mode")
            /\ orig_termios' = term
            /\ bset_exit' = TRUE
       ELSE UNCHANGED <<atexit_hooks, orig_termios, bset_exit>>
  /\ term' = [term EXCEPT !.echo = FALSE, !.icanon = FALSE,
                          !.vmin = IF wait_for_input THEN 1 ELSE 0,
                          !.vtime = IF wait_for_input THEN 0 ELSE 1]

(* ---------------------------------------------------------------------- *)
(* main: the loop                                                          *)
(* ---------------------------------------------------------------------- *)

\* CallReadFirst going to the read without entering raw mode
CallReadFirst_no_enable ==
  /\ pc = "loop"
  /\ UNCHANGED termvars
  /\ pc' = "read_first"
  /\ UNCHANGED <<term0, exit_code, wire, inbuf, c, vk, key_sequence, events, reads, whole>>

\* CallReadFirst entering raw mode only when it was not entered before
CallReadFirst_enable_once ==
  /\ pc = "loop"
  /\ IF bset_exit THEN UNCHANGED termvars ELSE enable_raw_mode(TRUE)
  /\ pc' = "read_first"
  /\ UNCHANGED <<term0, exit_code, wire, inbuf, c, vk, key_sequence, events, reads, whole>>

\* read_raw(&c), first half: enable_raw_mode(true)
CallReadFirst ==
  /\ pc = "loop"
  /\ enable_raw_mode(TRUE)
  /\ pc' = "read_first"
  /\ UNCHANGED <<term0, exit_code, wire, inbuf, c, vk, key_sequence, events, reads, whole>>

\* ReadFirst with the test for ESC always taken
ReadFirst_always_esc ==
  /\ pc = "read_first"
  /\ \E r \in ReadResults(1) :
       /\ inbuf' = SubSeq(inbuf, Len(r.data) + 1, Len(inbuf))
       /\ reads' = << ReadRecord(1, r) >>
       /\ whole' = IF wire = <<>> THEN inbuf ELSE <<>>
       /\ events' = <<>>
       /\ c' = IF r.ret >= 1 THEN r.data[1] ELSE c
       /\ IF r.ret = 1 /\ c' # SentinelQ
            THEN /\ key_sequence' = << c' >>
                 /\ pc' = "esc"
            ELSE /\ key_sequence' = <<>>
                 /\ pc' = "restore"
  /\ UNCHANGED <<termvars, term0, exit_code, wire, vk>>

\* read_raw(&c), second half, and the loop condition
\*   while (read_raw(&c) == 1 && c != 'q') { key_sequence = {c}; if (c == ESC) ...
ReadFirst ==
  /\ pc = "read_first"
  /\ \E r \in ReadResults(1) :
       /\ inbuf' = SubSeq(inbuf, Len(r.data) + 1, Len(inbuf))
       /\ reads' = << ReadRecord(1, r) >>
       /\ whole' = IF wire = <<>> THEN inbuf ELSE <<>>
       /\ events' = <<>>
       /\ c' = IF r.ret >= 1 THEN r.data[1] ELSE c
       /\ IF r.ret = 1 /\ c' # SentinelQ
            THEN /\ key_sequence' = << c' >>
                 /\ pc' = IF c' = ESC THEN "esc" ELSE "lookup"
            ELSE /\ key_sequence' = <<>>
                 /\ pc' = "restore"
  /\ UNCHANGED <<termvars, term0, exit_code, wire, vk>>

\* CallReadNext with bwait_for_key left at its default, true
CallReadNext_blocking ==
  /\ pc = "esc"
  /\ enable_raw_mode(TRUE)
  /\ pc' = "read_next"
  /\ UNCHANGED <<term0, exit_code, wire, inbuf, c, vk, key_sequence, events, reads, whole>>

\* read_raw(&immediate_next, false), first half: enable_raw_mode(false)
CallReadNext ==
  /\ pc = "esc"
  /\ enable_raw_mode(FALSE)
  /\ pc' = "read_next"
  /\ UNCHANGED <<term0, exit_code, wire, inbuf, c, vk, key_sequence, events, reads, whole>>

\* ReadNext polling a second time when the first poll returned nothing
ReadNext_retry_once ==
  /\ pc = "read_next"
  /\ \E r \in ReadResults(1) :
       LET rdret == r.ret
       IN  /\ inbuf' = SubSeq(inbuf, Len(r.data) + 1, Len(inbuf))
           /\ reads' = Append(reads, ReadRecord(1, r))
           /\ IF rdret = 1
                THEN /\ key_sequence' = Append(key_sequence, r.data[1])
                     /\ pc' = "rest"
                ELSE /\ UNCHANGED key_sequence
                     /\ pc' = IF rdret = 0 /\ Len(reads) = 1
                                THEN "read_next" ELSE "lookup"
  /\ UNCHANGED <<termvars, term0, exit_code, wire, c, vk, events, whole>>

\* ReadNext testing immediate_next for the sentinel too
ReadNext_sentinel ==
  /\ pc = "read_next"
  /\ \E r \in ReadResults(1) :
       LET rdret == r.ret
       IN  /\ inbuf' = SubSeq(inbuf, Len(r.data) + 1, Len(inbuf))
           /\ reads' = Append(reads, ReadRecord(1, r))
           /\ IF rdret = 1
                THEN /\ key_sequence' = Append(key_sequence, r.data[1])
                     /\ pc' = IF r.data[1] = SentinelQ THEN "restore" ELSE "rest"
                ELSE /\ UNCHANGED key_sequence
                     /\ pc' = "lookup"
  /\ UNCHANGED <<termvars, term0, exit_code, wire, c, vk, events, whole>>

\* ReadNext going on whenever the read did not fail (rdret >= 0, not == 1);
\* immediate_next is then still its initial 0
ReadNext_any_nonerror ==
  /\ pc = "read_next"
  /\ \E r \in ReadResults(1) :
       LET rdret == r.ret
       IN  /\ inbuf' = SubSeq(inbuf, Len(r.data) + 1, Len(inbuf))
           /\ reads' = Append(reads, ReadRecord(1, r))
           /\ IF rdret >= 0
                THEN /\ key_sequence' =
                          Append(key_sequence, IF rdret = 1 THEN r.data[1] ELSE 0)
                     /\ pc' = "rest"
                ELSE /\ UNCHANGED key_sequence
                     /\ pc' = "lookup"
  /\ UNCHANGED <<termvars, term0, exit_code, wire, c, vk, events, whole>>

\* read_raw(&immediate_next, false), second half, and if (rdret == 1)
ReadNext ==
  /\ pc = "read_next"
  /\ \E r \in ReadResults(1) :
       LET rdret == r.ret
       IN  /\ inbuf' = SubSeq(inbuf, Len(r.data) + 1, Len(inbuf))
           /\ reads' = Append(reads, ReadRecord(1, r))
           /\ IF rdret = 1
                THEN /\ key_sequence' = Append(key_sequence, r.data[1])
                     /\ pc' = "rest"
                ELSE /\ UNCHANGED key_sequence
                     /\ pc' = "lookup"
  /\ UNCHANGED <<termvars, term0, exit_code, wire, c, vk, events, whole>>

\* read_raw(buffer, false, 10), first half: enable_raw_mode(false)
CallReadRest ==
  /\ pc = "rest"
  /\ enable_raw_mode(FALSE)
  /\ pc' = "read_rest"
  /\ UNCHANGED <<term0, exit_code, wire, inbuf, c, vk, key_sequence, events, reads, whole>>

\* ReadRest assigning the buffer to key_sequence instead of appending it
ReadRest_overwrite ==
  /\ pc = "read_rest"
  /\ \E r \in ReadResults(RestReadSize) :
       LET buffer == r.data
       IN  /\ inbuf' = SubSeq(inbuf, Len(r.data) + 1, Len(inbuf))
           /\ reads' = Append(reads, ReadRecord(RestReadSize, r))
           /\ key_sequence' = CStr(buffer)
           /\ pc' = "lookup"
  /\ UNCHANGED <<termvars, term0, exit_code, wire, c, vk, events, whole>>

\* ReadRest asking for the whole of buffer[11] instead of 10 bytes
ReadRest_whole_buffer ==
  /\ pc = "read_rest"
  /\ \E r \in ReadResults(RestReadSize + 1) :
       LET buffer == r.data
       IN  /\ inbuf' = SubSeq(inbuf, Len(r.data) + 1, Len(inbuf))
           /\ reads' = Append(reads, ReadRecord(RestReadSize + 1, r))
           /\ key_sequence' = key_sequence \o CStr(buffer)
           /\ pc' = "lookup"
  /\ UNCHANGED <<termvars, term0, exit_code, wire, c, vk, events, whole>>

\* read_raw(buffer, false, 10), second half, and key_sequence.append(buffer)
ReadRest ==
  /\ pc = "read_rest"
  /\ \E r \in ReadResults(RestReadSize) :
       LET buffer == r.data
       IN  /\ inbuf' = SubSeq(inbuf, Len(r.data) + 1, Len(inbuf))
           /\ reads' = Append(reads, ReadRecord(RestReadSize, r))
           /\ key_sequence' = key_sequence \o CStr(buffer)
           /\ pc' = "lookup"
  /\ UNCHANGED <<termvars, term0, exit_code, wire, c, vk, events, whole>>

\* Lookup without the else branch: on a miss vk keeps its previous value
Lookup_no_else ==
  /\ pc = "lookup"
  /\ vk' = IF key_sequence \in MapKeys THEN find(key_sequence) ELSE vk
  /\ key_sequence' = IF key_sequence \in MapKeys THEN <<>> ELSE key_sequence
  /\ pc' = "dispatch"
  /\ UNCHANGED <<termvars, term0, exit_code, wire, inbuf, c, events, reads, whole>>

\* auto it = virtual_key_map.find(key_sequence); found: vk = it->second and
\* key_sequence = {}; not found: vk = vkey_t::none
Lookup ==
  /\ pc = "lookup"
  /\ vk' = find(key_sequence)
  /\ key_sequence' = IF key_sequence \in MapKeys THEN <<>> ELSE key_sequence
  /\ pc' = "dispatch"
  /\ UNCHANGED <<termvars, term0, exit_code, wire, inbuf, c, events, reads, whole>>

\* Dispatch printing only the first byte c when no key matched
Dispatch_first_byte ==
  /\ pc = "dispatch"
  /\ events' = IF vk # "none" THEN << Key(vk) >> ELSE << Character(c) >>
  /\ pc' = "loop"
  /\ UNCHANGED <<termvars, term0, exit_code, wire, inbuf, c, vk, key_sequence, reads, whole>>

\* Dispatch printing the vk line without the test for none
Dispatch_always_key ==
  /\ pc = "dispatch"
  /\ events' = << Key(vk) >> \o
                 [i \in 1..Len(key_sequence) |-> Character(key_sequence[i])]
  /\ pc' = "loop"
  /\ UNCHANGED <<termvars, term0, exit_code, wire, inbuf, c, vk, key_sequence, reads, whole>>

\* if (vk != none) print the vk line, else one character line for every ch of
\* key_sequence
Dispatch ==
  /\ pc = "dispatch"
  /\ events' = IF vk # "none"
                 THEN << Key(vk) >>
                 ELSE [i \in 1..Len(key_sequence) |-> Character(key_sequence[i])]
  /\ pc' = "loop"
  /\ UNCHANGED <<termvars, term0, exit_code, wire, inbuf, c, vk, key_sequence, reads, whole>>

\* after the loop: disable_raw_mode();
Restore ==
  /\ pc = "restore"
  /\ disable_raw_mode
  /\ pc' = "return"
  /\ UNCHANGED <<term0, exit_code, orig_termios, bset_exit, atexit_hooks, wire, c, vk,
                 key_sequence, events, reads, whole>>

\* return EXIT_SUCCESS: the functions registered with atexit run
Exit ==
  /\ pc = "return"
  /\ IF atexit_hooks # <<>>
       THEN disable_raw_mode
       ELSE UNCHANGED <<term, inbuf>>
  /\ pc' = "exited"
  /\ exit_code' = "EXIT_SUCCESS"
  /\ UNCHANGED <<term0, orig_termios, bset_exit, atexit_hooks, wire, c, vk,
                 key_sequence, events, reads, whole>>

(* ---------------------------------------------------------------------- *)
(* The environment                                                         *)
(* ---------------------------------------------------------------------- *)

Alive == pc \notin {"exited", "killed"}

\* the next byte of the wire reaches the kernel input queue
Arrive ==
  /\ Alive
  /\ wire # <<>>
  /\ inbuf' = Append(inbuf, Head(wire))
  /\ wire' = Tail(wire)
  /\ UNCHANGED <<termvars, term0, exit_code, pc, c, vk, key_sequence, events, reads, whole>>

\* a terminating signal (SIGINT from Ctrl-C, which mode immediate_no_echo
\* leaves enabled, SIGTERM, SIGHUP): the process ends at once; functions
\* registered with atexit run only on exit() or on return from main
Signal ==
  /\ Alive
  /\ pc' = "killed"
  /\ UNCHANGED <<termvars, term0, exit_code, wire, inbuf, c, vk, key_sequence, events,
                 reads, whole>>

Next ==
  \/ CallReadFirst
  \/ ReadFirst
  \/ CallReadNext
  \/ ReadNext
  \/ CallReadRest
  \/ ReadRest
  \/ Lookup
  \/ Dispatch
  \/ Restore
  \/ Exit
  \/ Arrive
  \/ Signal

Spec == Init /\ [][Next]_vars

TypeOK ==
  /\ term \in [echo : BOOLEAN, icanon : BOOLEAN, vmin : 0..1, vtime : 0..1]
  /\ bset_exit \in BOOLEAN
  /\ vk \in vkey_t
  /\ c \in 0..255
  /\ exit_code \in {"none", "EXIT_SUCCESS"}
  /\ pc \in {"loop", "read_first", "esc", "read_next", "rest", "read_rest",
             "lookup", "dispatch", "restore", "return", "exited", "killed"}

(* ---------------------------------------------------------------------- *)
(* Vocabulary of the properties                                            *)
(* ---------------------------------------------------------------------- *)

\* the dispatch of an event has run and the next first-byte read has not returned
EventDone == pc \in {"loop", "read_first"} /\ reads # <<>>

\* the iteration that the last first-byte read began is over: dispatched, or
\* the loop was left
StepEnded == pc \in {"loop", "read_first", "restore"} /\ reads # <<>>

\* bytes the i-th read of the current event took from the input queue
BytesOf(i) == IF i <= Len(reads) /\ reads[i].why = "data" THEN reads[i].ret ELSE 0

\* bytes the current event has taken from the input queue
Consumed == BytesOf(1) + BytesOf(2) + BytesOf(3)

\* every read of the current event returned bytes or ran into its timeout
NoReadFailed == \A i \in 1..Len(reads) : reads[i].why \in {"data", "timeout"}

\* the first-byte read of the current event returned one byte
FirstByteRead == reads # <<>> /\ reads[1].why = "data" /\ reads[1].ret = 1

\* the keys of the map that have more than one byte
MultiByteKeys == { s \in MapKeys : Len(s) > 1 }

(* ---------------------------------------------------------------------- *)
(* C1                                                                      *)
(* ---------------------------------------------------------------------- *)

\* C1: when the first-byte read returned ESC and the following timeout-bounded
\* 1-byte read returned zero bytes, the event took exactly 1 byte from the
\* input, issued no third read, looks up the 1-byte sequence ESC, resolves to
\* vk = ESC and emits exactly Key(ESC).
C1_BareEscape ==
  (FirstByteRead /\ c = ESC /\ Len(reads) >= 2 /\ reads[2].ret = 0) =>
    /\ Len(reads) = 2
    /\ Consumed = 1
    /\ pc \notin {"rest", "read_rest"}
    /\ pc = "lookup" => key_sequence = <<ESC>>
    /\ pc = "dispatch" => vk = "ESC"
    /\ EventDone => events = << Key("ESC") >>

C1_Witness ==
  /\ EventDone /\ FirstByteRead /\ c = ESC
  /\ Len(reads) = 2 /\ reads[2].why = "timeout"
  /\ events = << Key("ESC") >>

(* ---------------------------------------------------------------------- *)
(* C2                                                                      *)
(* ---------------------------------------------------------------------- *)

\* C2: when the whole remaining input is one multi-byte key s of the map, all
\* of it in the input queue when the first byte is read, and no read fails,
\* the event emits exactly Key(map[s]), takes exactly Len(s) bytes and leaves
\* the input queue empty; ESC [ A gives UP_ARROW with 3 bytes and ESC [ 1 5 ~
\* gives F5 with 5 bytes.
C2_MappedSequence ==
  \A e \in virtual_key_map :
    (Len(e.seq) > 1 /\ whole = e.seq /\ NoReadFailed /\ EventDone) =>
      /\ events = << Key(e.vk) >>
      /\ Consumed = Len(e.seq)
      /\ inbuf = <<>>
      /\ e.seq = <<ESC, 91, 65>> => events = << Key("UP_ARROW") >> /\ Consumed = 3
      /\ e.seq = <<ESC, 91, 49, 53, 126>> => events = << Key("F5") >> /\ Consumed = 5

C2_Witness ==
  /\ EventDone /\ NoReadFailed
  /\ whole = <<ESC, 91, 49, 53, 126>>
  /\ events = << Key("F5") >>
  /\ Consumed = 5

(* ---------------------------------------------------------------------- *)
(* C3                                                                      *)
(* ---------------------------------------------------------------------- *)

\* C3 as stated: when the accumulated key_sequence has more than one byte and
\* is not a key of the map, the event emits exactly one Character line, that
\* of the first byte (ESC), and no line for the trailing bytes.
C3_Original ==
  (EventDone /\ vk = "none" /\ Len(key_sequence) > 1) =>
    events = << Character(ESC) >>

\* C3 as amended: when the accumulated key_sequence has more than one byte and
\* is not a key of the map, the event emits no Key line and one Character line
\* for every byte of key_sequence, in order: first the original first byte
\* (ESC), then each trailing byte.
C3_UnmappedEmitsEveryByte ==
  (EventDone /\ vk = "none" /\ Len(key_sequence) > 1) =>
    /\ key_sequence \notin MapKeys
    /\ c = ESC /\ key_sequence[1] = ESC
    /\ Len(events) = Len(key_sequence)
    /\ \A i \in 1..Len(events) : events[i] = Character(key_sequence[i])

C3_Witness ==
  /\ EventDone /\ vk = "none"
  /\ key_sequence = <<ESC, 91, 90>>
  /\ events = << Character(ESC), Character(91), Character(90) >>

(* ---------------------------------------------------------------------- *)
(* C4                                                                      *)
(* ---------------------------------------------------------------------- *)

\* C4: an event whose first byte is 0x0A emits exactly Key(ENTER), one whose
\* first byte is 0x09 exactly Key(TAB), one whose first byte is 0x7F exactly
\* Key(BACKSPACE); no Character line is emitted for the byte, and the lookup
\* is made after that single read.
C4_SingleByteKeys ==
  (EventDone /\ FirstByteRead /\ c \in {10, 9, 127}) =>
    /\ Len(reads) = 1
    /\ c = 10 => events = << Key("ENTER") >>
    /\ c = 9 => events = << Key("TAB") >>
    /\ c = 127 => events = << Key("BACKSPACE") >>
    /\ \A i \in 1..Len(events) : events[i].type # "Character"

C4_Witness ==
  /\ EventDone /\ FirstByteRead /\ c = 127
  /\ events = << Key("BACKSPACE") >>

(* ---------------------------------------------------------------------- *)
(* C5                                                                      *)
(* ---------------------------------------------------------------------- *)

\* C5 as stated: for every byte b that is not ESC and not a key of the map,
\* the iteration whose first byte is b ends having emitted exactly
\* Character(b), having taken exactly that one byte and having issued no
\* timeout-bounded read.
C5_Original ==
  (StepEnded /\ FirstByteRead /\ c # ESC /\ <<c>> \notin MapKeys) =>
    /\ events = << Character(c) >>
    /\ Consumed = 1
    /\ Len(reads) = 1

\* C5 as amended: for every byte b that is not ESC, not the sentinel 'q' and
\* not a key of the map, the iteration whose first byte is b ends having
\* emitted exactly Character(b), having taken exactly that one byte and having
\* issued no timeout-bounded read; a first byte 'q' ends the loop and no line
\* is emitted for it.
C5_PlainCharacter ==
  /\ (StepEnded /\ FirstByteRead /\ c # ESC /\ c # SentinelQ /\ <<c>> \notin MapKeys) =>
       /\ EventDone
       /\ events = << Character(c) >>
       /\ Consumed = 1
       /\ Len(reads) = 1
       /\ reads[1].vmin = 1 /\ reads[1].vtime = 0
  /\ (StepEnded /\ FirstByteRead /\ c = SentinelQ) =>
       /\ pc = "restore"
       /\ events = <<>>

C5_Witness ==
  /\ EventDone /\ FirstByteRead /\ c = 97
  /\ events = << Character(97) >>
  /\ Len(reads) = 1

(* ---------------------------------------------------------------------- *)
(* C6                                                                      *)
(* ---------------------------------------------------------------------- *)

\* C6: Key(none) is never emitted; and once an event is dispatched, either vk
\* is a real virtual key and the output is the single line Key(vk) with no
\* Character line, or vk is none and the output is one or more Character
\* lines and no Key line.
C6_KeyOrCharacter ==
  /\ \A i \in 1..Len(events) : events[i] # Key("none")
  /\ EventDone =>
       IF vk # "none"
         THEN events = << Key(vk) >>
         ELSE /\ events # <<>>
              /\ \A i \in 1..Len(events) : events[i].type = "Character"

C6_Witness ==
  /\ EventDone /\ vk = "DOWN_ARROW"
  /\ events = << Key("DOWN_ARROW") >>

(* ---------------------------------------------------------------------- *)
(* C7                                                                      *)
(* ---------------------------------------------------------------------- *)

\* C7 as stated: key_sequence never has more than 11 bytes.
C7_Original == Len(key_sequence) <= 11

\* C7 as amended: key_sequence never has more than 12 bytes: the first byte,
\* the immediate_next byte and at most 10 bytes appended from the third read.
C7_AtMostTwelve ==
  /\ Len(key_sequence) <= 12
  /\ Len(reads) <= 3
  /\ Len(reads) = 3 => reads[3].size = 10 /\ reads[3].ret <= 10

C7_Witness ==
  /\ pc = "lookup"
  /\ Len(key_sequence) = 12
  /\ Len(reads) = 3 /\ reads[3].ret = 10

(* ---------------------------------------------------------------------- *)
(* C8                                                                      *)
(* ---------------------------------------------------------------------- *)

\* C8: over any number of enable_raw_mode calls, disable_raw_mode is
\* registered with atexit exactly once and orig_termios holds the settings the
\* terminal had before the first call; before the first call nothing is
\* registered and orig_termios is still zero.
C8_IdempotentInstall ==
  /\ bset_exit =>
       /\ atexit_hooks = << "disable_raw_mode" >>
       /\ orig_termios = term0
  /\ ~bset_exit =>
       /\ atexit_hooks = <<>>
       /\ orig_termios = ZeroTermios

\* three enable_raw_mode calls (blocking, polling, polling) were made in this
\* event alone and the terminal no longer has its original settings
C8_Witness ==
  /\ pc = "read_rest"
  /\ bset_exit
  /\ atexit_hooks = << "disable_raw_mode" >>
  /\ term # term0
  /\ orig_termios = term0

(* ---------------------------------------------------------------------- *)
(* C9                                                                      *)
(* ---------------------------------------------------------------------- *)

\* C9: after the enable_raw_mode calls of the loop, once disable_raw_mode has
\* run (the explicit call after the loop) the terminal's ECHO, ICANON, VMIN
\* and VTIME are those it had before the first enable_raw_mode call, and they
\* still are after disable_raw_mode has run again as the exit hook.
C9_RoundTrip ==
  pc \in {"return", "exited"} =>
    /\ term.echo = term0.echo
    /\ term.icanon = term0.icanon
    /\ term.vmin = term0.vmin
    /\ term.vtime = term0.vtime

\* the process has exited after an escape sequence was decoded (blocking and
\* polling enable_raw_mode calls), from settings that raw mode had changed
C9_Witness ==
  /\ pc = "exited"
  /\ vk = "UP_ARROW"
  /\ term0.echo /\ term0.icanon
  /\ term = term0

(* ---------------------------------------------------------------------- *)
(* C10                                                                     *)
(* ---------------------------------------------------------------------- *)

\* C10: once raw mode has been entered, however the process ends (the
\* sentinel, a failed or end-of-file first read, a terminating signal), the
\* terminal has its original settings.
C10_RestoredOnEveryExit ==
  (pc \in {"exited", "killed"} /\ bset_exit) => term = term0

(* ---------------------------------------------------------------------- *)
(* C11                                                                     *)
(* ---------------------------------------------------------------------- *)

\* a read of the current event failed (read() returned -1)
SomeReadFailed == \E i \in 1..Len(reads) : reads[i].why = "error"

\* C11: when a read of the current event failed, be it the first-byte read or
\* a continuation read, the step does not go on to look up and dispatch a
\* sequence, no event is emitted for it, and the failure is reported: the
\* program does not end with EXIT_SUCCESS.
C11_ReadFailurePropagates ==
  SomeReadFailed =>
    /\ pc \notin {"lookup", "dispatch"}
    /\ events = <<>>
    /\ exit_code # "EXIT_SUCCESS"

(* ---------------------------------------------------------------------- *)
(* C12                                                                     *)
(* ---------------------------------------------------------------------- *)

\* the bytes the i-th read of the current event returned
DataOf(i) == IF i <= Len(reads) THEN reads[i].data ELSE <<>>

\* the sequence the reads of the current event accumulate: the first byte
\* and, when the second read returned one byte, that byte and the string of
\* the third read's buffer
Accumulated ==
  DataOf(1) \o
    (IF Len(reads) >= 2 /\ reads[2].ret = 1
       THEN DataOf(2) \o CStr(DataOf(3))
       ELSE <<>>)

\* the output of an event whose accumulated sequence is ks
Decoded(ks) ==
  IF \E e \in virtual_key_map : e.seq = ks
    THEN << Key((CHOOSE e \in virtual_key_map : e.seq = ks).vk) >>
    ELSE [i \in 1..Len(ks) |-> Character(ks[i])]

\* C12: in every iteration key_sequence holds bytes read in that iteration
\* only (it starts as the first byte alone), and the vk and the output of the
\* iteration are a function of the bytes read in it: whatever vk and
\* key_sequence the previous iteration left behind has no influence.
C12_NoStateAcrossEvents ==
  /\ (pc \in {"esc", "read_next", "rest", "read_rest", "lookup"}) =>
       key_sequence = Accumulated
  /\ (pc \in {"esc", "read_next"} \/ (pc = "lookup" /\ Len(reads) = 1)) =>
       key_sequence = << c >>
  /\ pc = "dispatch" =>
       vk = IF Decoded(Accumulated)[1].type = "Key"
              THEN Decoded(Accumulated)[1].vk ELSE "none"
  /\ EventDone => events = Decoded(Accumulated)

\* a later iteration has read the plain byte 'a' and starts from it alone,
\* while vk still holds the key of the previous iteration
C12_Witness ==
  /\ pc = "lookup"
  /\ vk = "UP_ARROW"
  /\ Len(reads) = 1
  /\ key_sequence = <<97>>

(* ---------------------------------------------------------------------- *)
(* C13                                                                     *)
(* ---------------------------------------------------------------------- *)

\* the values of the 22 entries of the map
MappedKeys ==
  {"ESC", "F2", "F3", "F4", "F5", "F6", "F7", "F8", "F9", "HOME", "END",
   "UP_ARROW", "DOWN_ARROW", "RIGHT_ARROW", "LEFT_ARROW", "PAGE_UP",
   "PAGE_DOWN", "INSERT", "DELETE", "BACKSPACE", "ENTER", "TAB"}

\* C13: no output line is ever Key(F1), Key(F10), Key(F11) or Key(F12): vk is
\* always none or one of the 22 values of the map, and every Key line carries
\* one of those 22 values.
C13_UnmappedKeysUnreachable ==
  /\ vk \in MappedKeys \cup {"none"}
  /\ vk \notin {"F1", "F10", "F11", "F12"}
  /\ \A i \in 1..Len(events) :
       events[i].type = "Key" =>
         /\ events[i].vk \in MappedKeys
         /\ events[i].vk \notin {"F1", "F10", "F11", "F12"}

\* the F1 key was pressed (ESC O P) and its bytes were dispatched as
\* characters, after an earlier event or none
C13_Witness ==
  /\ EventDone
  /\ Accumulated = <<ESC, 79, 80>>
  /\ vk = "none"
  /\ events = << Character(ESC), Character(79), Character(80) >>

(* ---------------------------------------------------------------------- *)
(* C14                                                                     *)
(* ---------------------------------------------------------------------- *)

\* the loop has been left
LoopLeft == pc \in {"restore", "return", "exited"}

\* a continuation read of the current event returned a 'q'
SentinelInContinuation ==
  \E i \in 2..Len(reads) :
    \E j \in 1..Len(reads[i].data) : reads[i].data[j] = SentinelQ

\* C14: when the blocking first-byte read returns 'q' the loop is left with
\* no output line for it, the terminal is restored and main returns
\* EXIT_SUCCESS; the loop is left only at a first-byte read (one that returned
\* 'q' or did not return one byte), so a 'q' taken by a continuation read
\* never ends it and its event is dispatched.
C14_SentinelTermination ==
  /\ (Len(reads) = 1 /\ reads[1].data = << SentinelQ >>) =>
       /\ pc \in {"restore", "return", "exited", "killed"}
       /\ events = <<>>
  /\ LoopLeft =>
       /\ Len(reads) = 1
       /\ reads[1].vmin = 1
       /\ reads[1].ret # 1 \/ reads[1].data = << SentinelQ >>
  /\ pc \in {"return", "exited"} => term = term0
  /\ pc = "exited" => exit_code = "EXIT_SUCCESS"
  /\ pc # "exited" => exit_code = "none"
  /\ SentinelInContinuation => ~LoopLeft
  /\ (SentinelInContinuation /\ EventDone) => events # <<>>

\* after a decoded key the first-byte read returned 'q' and the program has
\* exited with the terminal restored
C14_Witness ==
  /\ pc = "exited"
  /\ vk = "DOWN_ARROW"
  /\ reads = << [vmin |-> 1, vtime |-> 0, size |-> 1, ret |-> 1, why |-> "data",
                 data |-> << SentinelQ >>] >>
  /\ events = <<>>
  /\ exit_code = "EXIT_SUCCESS"
  /\ term = term0

(* ---------------------------------------------------------------------- *)
(* C15                                                                     *)
(* ---------------------------------------------------------------------- *)

\* a read of at most n bytes issued now can return without a failure or a
\* hang-up: with bytes, or by running into its timeout
ReadReturns(n) == \E r \in ReadResults(n) : r.why \in {"data", "timeout"}

\* C15: once the first-byte read has returned, every further read of the
\* event is timeout-bounded (VMIN = 0, VTIME = 1) and so can return whether or
\* not a byte ever arrives; an event issues at most two such reads after its
\* first-byte read.  Only the first-byte read waits while the queue is empty.
C15_NoIndefiniteBlocking ==
  /\ pc = "read_next" => term.vmin = 0 /\ term.vtime = 1 /\ ReadReturns(1)
  /\ pc = "read_rest" => term.vmin = 0 /\ term.vtime = 1 /\ ReadReturns(RestReadSize)
  /\ Len(reads) <= 3
  /\ \A i \in 2..Len(reads) : reads[i].vmin = 0 /\ reads[i].vtime = 1
  /\ (pc = "read_first" /\ inbuf = <<>>) => ~ReadReturns(1)

\* ESC was read, nothing is queued and nothing will ever arrive: the
\* continuation read is about to run into its timeout
C15_Witness ==
  /\ pc = "read_next"
  /\ c = ESC
  /\ inbuf = <<>> /\ wire = <<>>
  /\ ReadReturns(1)

(* ---------------------------------------------------------------------- *)
(* C16                                                                     *)
(* ---------------------------------------------------------------------- *)

\* C16: whenever a read is about to be issued the terminal is non-canonical
\* with VMIN = 1, VTIME = 0 for a first-byte read and VMIN = 0, VTIME = 1 for
\* a continuation read, and every read on record was issued so; a first-byte
\* read, also the one after an escape sequence, never returns zero bytes by
\* timeout.
C16_ReadDiscipline ==
  /\ pc = "read_first" =>
       ~term.icanon /\ term.vmin = 1 /\ term.vtime = 0
  /\ pc \in {"read_next", "read_rest"} =>
       ~term.icanon /\ term.vmin = 0 /\ term.vtime = 1
  /\ reads # <<>> =>
       /\ reads[1].vmin = 1 /\ reads[1].vtime = 0
       /\ reads[1].why # "timeout"
       /\ reads[1].ret = 0 => reads[1].why = "eof"
  /\ \A i \in 2..Len(reads) : reads[i].vmin = 0 /\ reads[i].vtime = 1

\* the event before was an escape sequence read with two timeout-bounded
\* reads; the next first-byte read is pending on an empty queue in blocking mode
C16_Witness ==
  /\ pc = "read_first"
  /\ Len(reads) = 3 /\ reads[3].vmin = 0 /\ reads[3].vtime = 1
  /\ vk = "UP_ARROW"
  /\ inbuf = <<>>
  /\ term.vmin = 1 /\ term.vtime = 0

(* ---------------------------------------------------------------------- *)
(* C17                                                                     *)
(* ---------------------------------------------------------------------- *)

\* the reads of the current event are all issued
ReadsComplete == pc \in {"lookup", "dispatch"} \/ EventDone

\* C17: an event issues one blocking 1-byte read; a second read, timeout-
\* bounded and of 1 byte, exactly when the first returned ESC; a third,
\* timeout-bounded and of at most 10 bytes, exactly when the second returned
\* one byte; and never another: 1, 2 or 3 reads, none repeated after a
\* timeout, a short read or a failure.
C17_SingleAttemptReads ==
  /\ Len(reads) <= 3
  /\ reads # <<>> => reads[1].size = 1 /\ reads[1].vmin = 1
  /\ Len(reads) >= 2 =>
       /\ reads[1].data = << ESC >>
       /\ reads[2].size = 1 /\ reads[2].vmin = 0
  /\ Len(reads) = 3 =>
       /\ reads[2].ret = 1
       /\ reads[3].size = 10 /\ reads[3].vmin = 0
       /\ Len(reads[3].data) <= 10
  /\ ReadsComplete =>
       Len(reads) = IF reads[1].data # << ESC >> THEN 1
                    ELSE IF reads[2].ret # 1 THEN 2
                    ELSE 3

\* ESC and one more byte were read and the third read ran into its timeout:
\* the event was dispatched without another read
C17_Witness ==
  /\ EventDone
  /\ Len(reads) = 3
  /\ reads[3].why = "timeout"
  /\ Len(key_sequence) = 2

(* ---------------------------------------------------------------------- *)
(* C18                                                                     *)
(* ---------------------------------------------------------------------- *)

\* every byte the reads of the current event took from the input queue
AllData == DataOf(1) \o DataOf(2) \o DataOf(3)

\* C18: the lookup is an exact match over everything the event consumed: an
\* event is Key(v) only when the bytes its reads took are exactly the map key
\* of v, so neither a mapped sequence followed by further bytes taken in the
\* same reads nor a strict prefix of a mapped sequence resolves to the mapped
\* key.
C18_ExactMatchOverConsumed ==
  EventDone =>
    \A e \in virtual_key_map :
      events = << Key(e.vk) >> => AllData = e.seq

(* ---------------------------------------------------------------------- *)
(* C19                                                                     *)
(* ---------------------------------------------------------------------- *)

\* C19: whenever disable_raw_mode is about to run or has run (the call after
\* the loop, the exit hook), enable_raw_mode has already filled orig_termios
\* with the terminal's settings: the terminal is set from that snapshot, never
\* from the zero-initialised orig_termios, and is not touched at all before
\* the snapshot is taken.
C19_RestoreAfterSnapshot ==
  /\ pc \in {"restore", "return", "exited"} =>
       /\ bset_exit
       /\ atexit_hooks # <<>>
       /\ orig_termios = term0
       /\ orig_termios # ZeroTermios
  /\ pc \in {"return", "exited"} =>
       term = orig_termios /\ term # ZeroTermios
  /\ ~bset_exit => term = term0

\* the very first read failed (none of the two key presses ever arrived) and
\* the program has exited through both disable_raw_mode calls
C19_Witness ==
  /\ pc = "exited"
  /\ wire = <<ESC, 91, 49, 59, 53, 65, ESC, 91, 49, 59, 53, 65>>
  /\ Len(reads) = 1 /\ reads[1].why = "error"
  /\ bset_exit
  /\ term = term0

====
